---- MODULE Spec2Model ----
(***************************************************************************)
(* A model of glc's stream file controller, src/src/glc/core/file.c, with  *)
(* the on-disk constants of src/src/glc/common/glc.h.                      *)
(*                                                                         *)
(* The file on disk is a sequence of bytes.  stdio's buffering is not      *)
(* modelled: disk is the stream as seen through the controller's handle,   *)
(* so fflush (and with it the sync setting) changes nothing here.  Sizes   *)
(* are stored as the host stores them; the model takes a little-endian     *)
(* host.                                                                   *)
(***************************************************************************)
EXTENDS Integers, Sequences, FiniteSets, TLC

(* ------------------------------------------------------------------ *)
(* Bounds of the model                                                   *)
(* ------------------------------------------------------------------ *)

\* frames in a recording found on disk when the model starts
MaxStored == 2
\* frames one pump session takes from the source buffer
MaxPump == 2
\* pump workers of one controller that were started and are not yet joined
MaxThreads == 2
\* calls of write-info, write-eof and write-state that write through one
\* attachment; the pump's writes are bounded by the frames it is fed
MaxWrites == 2

(* ------------------------------------------------------------------ *)
(* Program constants                                                     *)
(* ------------------------------------------------------------------ *)

GLC_STREAM_VERSION == 2
GLC_SIGNATURE == 4410439
GLC_SIZE_SIZE == 8
GLC_STREAM_INFO_SIZE == 32
GLC_MESSAGE_HEADER_SIZE == 1
GLC_MESSAGE_CLOSE == 1
GLC_MESSAGE_PICTURE == 2
GLC_MESSAGE_CTX == 3
GLC_MESSAGE_AUDIO_FORMAT == 5
GLC_MESSAGE_AUDIO == 6
GLC_MESSAGE_COLOR == 8
GLC_MESSAGE_CONTAINER == 9
\* the tag of callback requests; its value is set outside the sources at hand
GLC_CALLBACK_REQUEST == 10
\* the one legacy version file_test_stream_version accepts
LEGACY_VERSION == 3
\* sizeof(glc_container_message_header_t): size(8) then header(1)
GLC_CONTAINER_MESSAGE_SIZE == 9

\* the lifecycle flags of struct file_s
FILE_READING == "FILE_READING"
FILE_WRITING == "FILE_WRITING"
FILE_RUNNING == "FILE_RUNNING"
FILE_INFO_WRITTEN == "FILE_INFO_WRITTEN"
FILE_INFO_READ == "FILE_INFO_READ"
FILE_INFO_VALID == "FILE_INFO_VALID"

\* return codes; OK is 0
OK == "OK"
EAGAIN == "EAGAIN"
EBUSY == "EBUSY"
EINVAL == "EINVAL"
ENOTSUP == "ENOTSUP"
EBADMSG == "EBADMSG"
EINTR == "EINTR"
EIO == "EIO"
EACCES == "EACCES"

\* `return errno' after a call that failed without setting errno (a short
\* fread at end of file, an fwrite or fread of size 0) returns whatever errno
\* held before: 0 or some earlier error.
StaleErrno == {OK, EIO}

(* ------------------------------------------------------------------ *)
(* Bytes                                                                 *)
(* ------------------------------------------------------------------ *)

Max(a, b) == IF a >= b THEN a ELSE b

\* an unsigned integer of w bytes as the host stores it
RECURSIVE LE(_, _)
LE(n, w) == IF w = 0 THEN <<>> ELSE <<n % 256>> \o LE(n \div 256, w - 1)

\* The integer that bytes hold.  The model checker's integers have 32 bits: a value
\* of 2^30 or more reads as Huge, which is larger than any file, name or
\* payload of the model and equal to no signature or version the code
\* compares with.
Huge == 1073741824
RECURSIVE FromLE(_)
FromLE(b) ==
    IF b = <<>> THEN 0
    ELSE LET high == FromLE(Tail(b))
         IN IF high >= Huge \div 256 THEN Huge ELSE b[1] + 256 * high

Bytes(d, from, n) == SubSeq(d, from + 1, from + n)

\* fread_unlocked(buf, n, 1, handle) != 1 is false: n bytes were there.  A
\* request of size 0 returns 0, as every fread does.
FreadOK(d, pos, n) == n > 0 /\ pos + n <= Len(d)

\* the handle's position after that fread: a short read consumes what is left
FreadPos(d, pos, n) ==
    IF pos + n <= Len(d) THEN pos + n ELSE Max(pos, Len(d))

\* fwrite_unlocked(buf, n, 1, handle) through a handle at pos; the gap a
\* truncation by another descriptor left reads as zeros
FwriteAt(d, pos, b) ==
    [i \in 1..Max(Len(d), pos + Len(b)) |->
        IF i > pos /\ i <= pos + Len(b) THEN b[i - pos]
        ELSE IF i <= Len(d) THEN d[i] ELSE 0]

(* ------------------------------------------------------------------ *)
(* The on-disk format                                                    *)
(* ------------------------------------------------------------------ *)

\* glc_stream_info_t as fwrite stores it: 32 bytes
EncodeInfo(i) ==
    LE(i.signature, 4) \o LE(i.version, 4) \o LE(i.fps, 8)
        \o LE(i.flags, 4) \o LE(i.pid, 4)
        \o LE(i.name_size, 4) \o LE(i.date_size, 4)

DecodeInfo(b) ==
    [signature |-> FromLE(Bytes(b, 0, 4)), version |-> FromLE(Bytes(b, 4, 4)),
     fps |-> FromLE(Bytes(b, 8, 8)), flags |-> FromLE(Bytes(b, 16, 4)),
     pid |-> FromLE(Bytes(b, 20, 4)), name_size |-> FromLE(Bytes(b, 24, 4)),
     date_size |-> FromLE(Bytes(b, 28, 4))]

Frame(type, data) == [type |-> type, data |-> data]

\* a frame in the current order: length(8) | tag(1) | payload
EncodeCurrent(fr) ==
    LE(Len(fr.data), GLC_SIZE_SIZE) \o <<fr.type>> \o fr.data

\* a frame in the order of version 0x03: tag(1) | length(8) | payload
EncodeLegacy(fr) ==
    <<fr.type>> \o LE(Len(fr.data), GLC_SIZE_SIZE) \o fr.data

RECURSIVE EncodeAll(_, _)
EncodeAll(frs, version) ==
    IF frs = <<>> THEN <<>>
    ELSE (IF version = LEGACY_VERSION THEN EncodeLegacy(Head(frs))
          ELSE EncodeCurrent(Head(frs))) \o EncodeAll(Tail(frs), version)

(* ------------------------------------------------------------------ *)
(* Inputs                                                                *)
(* ------------------------------------------------------------------ *)

\* the controllers, and the process that owns each
Ctl == {1, 2, 3}
NoProc == 0

\* the frames a recording on disk is made of, among them a frame without
\* payload and the EOF marker
Pixels == <<7, 7, 7, 7, 7, 7, 7>>
StoredFrames ==
    {Frame(GLC_MESSAGE_PICTURE, Pixels), Frame(GLC_MESSAGE_PICTURE, <<>>),
     Frame(GLC_MESSAGE_CLOSE, <<>>)}

RECURSIVE SeqsUpTo(_, _)
SeqsUpTo(S, n) ==
    IF n = 0 THEN {<<>>}
    ELSE LET shorter == SeqsUpTo(S, n - 1)
         IN shorter \cup {Append(q, x) : q \in {r \in shorter : Len(r) = n - 1}, x \in S}

\* b cut off at any point from the last byte of its info header on, or empty
Cuts(b) ==
    {SubSeq(b, 1, k) : k \in {0} \cup (GLC_STREAM_INFO_SIZE - 1)..Len(b)}

\* the stream info a caller hands to write-info, with its name and date
Info(sig, ver, ns, ds) ==
    [signature |-> sig, version |-> ver, fps |-> 30, flags |-> 0, pid |-> 1,
     name_size |-> ns, date_size |-> ds]
Name == <<0>>
Date == <<0>>

CurrentInfo == Info(GLC_SIGNATURE, GLC_STREAM_VERSION, 1, 1)
LegacyInfo == Info(GLC_SIGNATURE, LEGACY_VERSION, 1, 1)
\* an application without a name
NamelessInfo == Info(GLC_SIGNATURE, GLC_STREAM_VERSION, 0, 1)

InfoInputs ==
    {CurrentInfo, LegacyInfo, NamelessInfo,
     Info(GLC_SIGNATURE, GLC_STREAM_VERSION + 2, 1, 1),
     Info(GLC_SIGNATURE + 1, GLC_STREAM_VERSION, 1, 1)}

InfoBytes(i) ==
    EncodeInfo(i) \o SubSeq(Name, 1, i.name_size)
        \o SubSeq(Date, 1, i.date_size)

\* a recording as a recorder of its version left it, frames in that
\* version's order
Recording(i, frs) == InfoBytes(i) \o EncodeAll(frs, i.version)

\* what may lie on disk before the program runs: nothing, a recording of
\* either version, a file with a foreign signature or version, and any of
\* these cut off where an interrupted recorder stopped
Supported(i) ==
    i.signature = GLC_SIGNATURE
        /\ i.version \in {GLC_STREAM_VERSION, LEGACY_VERSION}

InitialFiles ==
    UNION {Cuts(Recording(i, frs)) :
              i \in {j \in InfoInputs : Supported(j) /\ j.name_size > 0},
              frs \in SeqsUpTo(StoredFrames, MaxStored)}
      \cup UNION {Cuts(Recording(i, <<>>)) : i \in InfoInputs}

(* ------------------------------------------------------------------ *)
(* State                                                                 *)
(* ------------------------------------------------------------------ *)

VARIABLES
    disk,            \* the bytes of the stream file
    nwritten,        \* how many calls of write-info, write-eof and write-state
                     \* of each controller wrote to it since the controller
                     \* attached
    info,            \* the stream info the application hands to write-info
    lock,            \* the process holding the write lock on it, or NoProc
    proc,            \* the process each controller lives in
    handle,          \* file->handle: its mode ("null" is NULL) and position
    flags,           \* file->flags
    stream_version,  \* file->stream_version
    callback,        \* file->callback is not NULL
    tracker,         \* file->state_tracker: the declarations it replays
    thr,             \* the pump workers of file->thread: how many run, are
                     \* inside the callback, have exited and are not joined
    from,            \* the source buffer of the pump: the frames its
                     \* producer puts there, and how many were taken
    waiting,         \* the owner is inside file_write_process_wait, joining
    cancel,          \* GLC_STATE_CANCEL of the process-wide state
    rd,              \* the file_read call in progress: where it stands, the
                     \* tag it read last, where in the file it started
    to,              \* the destination buffer handed to file_read, as the
                     \* call in progress or just returned left it; a call
                     \* of another operation is handed none
    last,            \* the call that returned last, and what it returned
    lastInfo,        \* what the last file_read_info since the controller was
                     \* attached returned
    consumed         \* a file_read passed its checks and no file_read_info
                     \* has returned 0 since

vars == <<disk, nwritten, info, lock, proc, handle, flags, stream_version, callback, tracker,
          thr, from, waiting, cancel, rd, to, last, lastInfo, consumed>>

NULL == [mode |-> "null", pos |-> 0]
NoThreads == [run |-> 0, cb |-> 0, exited |-> 0]
Idle == [pc |-> "idle", c |-> 0, type |-> 0, start |-> 0]
EmptyBuffer == [out |-> <<>>, slot |-> "none", cancelled |-> FALSE, failed |-> FALSE]

Returned(op, c, ret) == [op |-> op, c |-> c, ret |-> ret]

\* the state after file_init of every controller, with d on disk, frs to
\* come from the producer of the source buffer, and controller c living in
\* process procs[c]
Constructed(d, frs, inf, procs) ==
    /\ disk = d
    /\ nwritten = [c \in Ctl |-> 0]
    /\ info = inf
    /\ lock = NoProc
    /\ proc = procs
    /\ handle = [c \in Ctl |-> NULL]
    /\ flags = [c \in Ctl |-> {}]
    /\ stream_version = [c \in Ctl |-> 0]
    /\ callback = [c \in Ctl |-> FALSE]
    /\ tracker = [c \in Ctl |-> <<>>]
    /\ thr = [c \in Ctl |-> NoThreads]
    /\ from = [frames |-> frs, n |-> 0]
    /\ waiting = [c \in Ctl |-> FALSE]
    /\ cancel = FALSE
    /\ rd = Idle
    /\ to = EmptyBuffer
    /\ last = Returned("file_init", 0, OK)
    /\ lastInfo = [c \in Ctl |-> "none"]
    /\ consumed = [c \in Ctl |-> FALSE]

\* A thread can call an operation of controller c: its owner, unless it is
\* inside file_read or blocked in file_write_process_wait, or the callback
\* a pump worker of c is dispatching.
Free(c) ==
    /\ proc[c] # NoProc
    /\ rd.pc = "idle" \/ rd.c # c
    /\ ~waiting[c] \/ thr[c].cb > 0

(* ------------------------------------------------------------------ *)
(* Read side: attach, close, read-info                                   *)
(* ------------------------------------------------------------------ *)

\* fdopen(fd, "r") after lseek(fd, 0, SEEK_SET)
SourceHandle == [mode |-> "r", pos |-> 0]

\* a call that was refused or failed: nothing of the controller changes
Refused(op, c, ret) ==
    /\ last' = Returned(op, c, ret)
    /\ UNCHANGED <<handle, flags, lastInfo>>

\* fdopen(fd, "r") succeeded: the tail of file_set_source
SourceAttached(op, c) ==
    /\ handle' = [handle EXCEPT ![c] = SourceHandle]
    /\ flags' = [flags EXCEPT ![c] = @ \cup {FILE_READING}]
    /\ lastInfo' = [lastInfo EXCEPT ![c] = "none"]
    /\ last' = Returned(op, c, OK)

\* an attach that does not look at the handle it replaces
AttachOverHandle(c) ==
    /\ Free(c)
    /\ \E fdopen_ok \in BOOLEAN :
        IF ~fdopen_ok THEN Refused("file_set_source", c, EIO)
        ELSE SourceAttached("file_set_source", c)
    /\ to' = EmptyBuffer
    /\ UNCHANGED <<disk, nwritten, lock, proc, info, stream_version, callback, tracker, thr,
                   from, waiting, cancel, rd, consumed>>

\* file_set_source(file, fd); fdopen may fail
file_set_source(c) ==
    /\ Free(c)
    /\ \E fdopen_ok \in BOOLEAN :
        IF handle[c] # NULL THEN Refused("file_set_source", c, EBUSY)
        ELSE IF ~fdopen_ok THEN Refused("file_set_source", c, EIO)
        ELSE SourceAttached("file_set_source", c)
    /\ to' = EmptyBuffer
    /\ UNCHANGED <<disk, nwritten, lock, proc, info, stream_version, callback, tracker, thr,
                   from, waiting, cancel, rd, consumed>>

\* close of a descriptor of the file by process p: a process's record locks
\* on a file go with any descriptor of it that the process closes
Unlocked(p) == IF lock = p THEN NoProc ELSE lock

\* file_open_source(file, filename): open, then file_set_source on the new
\* descriptor, which is closed again when that fails
file_open_source(c) ==
    /\ Free(c)
    /\ \E open_ok \in BOOLEAN, fdopen_ok \in BOOLEAN :
        IF handle[c] # NULL
        THEN Refused("file_open_source", c, EBUSY) /\ UNCHANGED lock
        ELSE IF ~open_ok
        THEN Refused("file_open_source", c, EIO) /\ UNCHANGED lock
        ELSE IF ~fdopen_ok
        THEN Refused("file_open_source", c, EIO) /\ lock' = Unlocked(proc[c])
        ELSE SourceAttached("file_open_source", c) /\ UNCHANGED lock
    /\ to' = EmptyBuffer
    /\ UNCHANGED <<disk, nwritten, proc, info, stream_version, callback, tracker, thr,
                   from, waiting, cancel, rd, consumed>>

\* file_close_source(file)
file_close_source(c) ==
    /\ Free(c)
    /\ IF handle[c] = NULL \/ FILE_READING \notin flags[c]
       THEN Refused("file_close_source", c, EAGAIN) /\ UNCHANGED lock
       ELSE /\ handle' = [handle EXCEPT ![c] = NULL]
            /\ flags' = [flags EXCEPT
                   ![c] = @ \ {FILE_READING, FILE_INFO_READ, FILE_INFO_VALID}]
            /\ lock' = Unlocked(proc[c])
            /\ lastInfo' = [lastInfo EXCEPT ![c] = "none"]
            /\ last' = Returned("file_close_source", c, OK)
    /\ to' = EmptyBuffer
    /\ UNCHANGED <<disk, nwritten, proc, info, stream_version, callback, tracker, thr, from, waiting,
                   cancel, rd, consumed>>

\* a test that accepts every version
AcceptAnyVersion(version) == OK

\* file_test_stream_version(version): 0 when the version is supported
file_test_stream_version(version) ==
    IF version = GLC_STREAM_VERSION THEN OK
    ELSE IF version = LEGACY_VERSION THEN OK
    ELSE ENOTSUP

\* info-valid set where info-read is, before the header was validated
AddedEarly(stage) ==
    IF stage = "header" THEN {} ELSE {FILE_INFO_READ, FILE_INFO_VALID}

\* the flags file_read_info has set when it returns at a stage: info-read
\* once the header was read, info-valid at the end
Added(stage) ==
    IF stage = "header" THEN {}
    ELSE IF stage = "done" THEN {FILE_INFO_READ, FILE_INFO_VALID}
    ELSE {FILE_INFO_READ}

\* The outcome of file_read_info on the bytes d read from position pos on:
\* what it returns (errno, where the code returns errno that no call set),
\* where the handle ends, the flags it adds, and the version it caches.
ReadInfoOutcome(d, pos, old_version) ==
    LET hdr == DecodeInfo(Bytes(d, pos, GLC_STREAM_INFO_SIZE))
        p1 == FreadPos(d, pos, GLC_STREAM_INFO_SIZE)
        name_ok == hdr.name_size = 0 \/ FreadOK(d, p1, hdr.name_size)
        p2 == IF hdr.name_size = 0 THEN p1 ELSE FreadPos(d, p1, hdr.name_size)
        date_ok == hdr.date_size = 0 \/ FreadOK(d, p2, hdr.date_size)
        p3 == IF hdr.date_size = 0 THEN p2 ELSE FreadPos(d, p2, hdr.date_size)
        Out(ret, pos2, add, ver) ==
            [ret |-> ret, pos |-> pos2, add |-> add, version |-> ver]
    IN  IF ~FreadOK(d, pos, GLC_STREAM_INFO_SIZE)
        THEN Out("errno", p1, Added("header"), old_version)
        ELSE IF hdr.signature # GLC_SIGNATURE
        THEN Out(EINVAL, p1, Added("signature"), old_version)
        ELSE IF file_test_stream_version(hdr.version) # OK
        THEN Out(ENOTSUP, p1, Added("version"), old_version)
        ELSE IF ~name_ok
        THEN Out("errno", p2, Added("name"), hdr.version)
        ELSE IF ~date_ok
        THEN Out("errno", p3, Added("date"), hdr.version)
        ELSE Out(OK, p3, Added("done"), hdr.version)

\* file_read_info(file, info, info_name, info_date)
file_read_info(c) ==
    /\ Free(c)
    /\ IF handle[c] = NULL \/ FILE_READING \notin flags[c]
       THEN /\ last' = Returned("file_read_info", c, EAGAIN)
            /\ lastInfo' = [lastInfo EXCEPT ![c] = EAGAIN]
            /\ UNCHANGED <<handle, flags, stream_version, consumed>>
       ELSE LET o == ReadInfoOutcome(disk, handle[c].pos, stream_version[c])
            IN  /\ handle' = [handle EXCEPT ![c].pos = o.pos]
                /\ flags' = [flags EXCEPT ![c] = @ \cup o.add]
                /\ stream_version' = [stream_version EXCEPT ![c] = o.version]
                /\ \E ret \in (IF o.ret = "errno" THEN StaleErrno ELSE {o.ret}) :
                    /\ last' = Returned("file_read_info", c, ret)
                    /\ lastInfo' = [lastInfo EXCEPT ![c] = ret]
                    /\ consumed' = [consumed EXCEPT ![c] = @ /\ ret # OK]
    /\ to' = EmptyBuffer
    /\ UNCHANGED <<disk, nwritten, lock, proc, info, callback, tracker, thr, from, waiting, cancel, rd>>

(* ------------------------------------------------------------------ *)
(* Read side: file_read                                                  *)
(* ------------------------------------------------------------------ *)

\* the buffer operations of one pass of the loop, in the order made
BufferOps == <<"open", "write", "dma", "close">>
\* what a failing buffer operation returns: EINTR when the buffer was
\* cancelled, or another error
BufferErrors == {EINTR, EIO}

\* a return that leaves the info flags set
ReadKeepsInfo(c) ==
    /\ rd' = Idle
    /\ last' = Returned("file_read", c, OK)
    /\ UNCHANGED flags

\* label finish: the call returns 0
ReadFinish(c) ==
    /\ flags' = [flags EXCEPT ![c] = @ \ {FILE_INFO_READ, FILE_INFO_VALID}]
    /\ rd' = Idle
    /\ last' = Returned("file_read", c, OK)

\* an error path that returns without cancelling the buffer
ReadErrNoCancel(c, ret, buf) ==
    /\ to' = buf
    /\ flags' = [flags EXCEPT ![c] = @ \ {FILE_INFO_READ, FILE_INFO_VALID}]
    /\ rd' = Idle
    /\ last' = Returned("file_read", c, IF ret = EINTR THEN OK ELSE ret)

\* label err, reached with ret
ReadErr(c, ret, buf) ==
    IF ret = EINTR
    THEN /\ to' = buf
         /\ ReadFinish(c)
    ELSE /\ to' = [buf EXCEPT !.cancelled = TRUE]
         /\ flags' = [flags EXCEPT ![c] = @ \ {FILE_INFO_READ, FILE_INFO_VALID}]
         /\ rd' = Idle
         /\ last' = Returned("file_read", c, ret)

\* label send_eof: a close frame is sent, the results of the buffer
\* operations unchecked, and the call finishes
ReadSendEof(c, pos) ==
    /\ handle' = [handle EXCEPT ![c].pos = pos]
    /\ \E sent \in BOOLEAN :
        to' = IF sent
              THEN [to EXCEPT !.out = Append(@, Frame(GLC_MESSAGE_CLOSE, <<>>))]
              ELSE [to EXCEPT !.failed = TRUE]
    /\ ReadFinish(c)

\* file_read(file, to) up to the loop: the state checks, ps_packet_init
file_read(c) ==
    /\ Free(c)
    /\ IF handle[c] = NULL \/ FILE_READING \notin flags[c]
       THEN /\ last' = Returned("file_read", c, EAGAIN)
            /\ to' = EmptyBuffer
            /\ UNCHANGED <<flags, rd, consumed>>
       ELSE IF FILE_INFO_READ \notin flags[c]
       THEN /\ last' = Returned("file_read", c, EAGAIN)
            /\ to' = EmptyBuffer
            /\ UNCHANGED <<flags, rd, consumed>>
       ELSE IF FILE_INFO_VALID \notin flags[c]
       THEN /\ flags' = [flags EXCEPT ![c] = @ \ {FILE_INFO_READ}]
            /\ last' = Returned("file_read", c, EINVAL)
            /\ to' = EmptyBuffer
            /\ UNCHANGED <<rd, consumed>>
       ELSE /\ rd' = [pc |-> "body", c |-> c, type |-> 0,
                       start |-> handle[c].pos]
            /\ to' = EmptyBuffer
            /\ last' = Returned("file_read", c, "running")
            /\ consumed' = [consumed EXCEPT ![c] = TRUE]
            /\ UNCHANGED flags
    /\ UNCHANGED <<disk, nwritten, lock, proc, info, handle, stream_version, callback,
                   tracker, thr, from, waiting, cancel, lastInfo>>

\* one pass of the do-loop's body: the frame's length and tag in the order
\* of the stream's version, a slot of the buffer, the payload read into it
file_read_frame(c) ==
    /\ rd.pc = "body" /\ rd.c = c
    /\ LET legacy == stream_version[c] = LEGACY_VERSION
           n1 == IF legacy THEN GLC_MESSAGE_HEADER_SIZE ELSE GLC_SIZE_SIZE
           n2 == IF legacy THEN GLC_SIZE_SIZE ELSE GLC_MESSAGE_HEADER_SIZE
           p0 == handle[c].pos
           p1 == FreadPos(disk, p0, n1)
           p2 == FreadPos(disk, p1, n2)
           type == FromLE(IF legacy THEN Bytes(disk, p0, n1) ELSE Bytes(disk, p1, n2))
           glc_ps == FromLE(IF legacy THEN Bytes(disk, p1, n2) ELSE Bytes(disk, p0, n1))
           p3 == FreadPos(disk, p2, glc_ps)
       IN  IF ~FreadOK(disk, p0, n1)
           THEN ReadSendEof(c, p1)
           ELSE IF ~FreadOK(disk, p1, n2)
           THEN ReadSendEof(c, p2)
           ELSE \E failing \in {0} \cup DOMAIN BufferOps, e \in BufferErrors :
               IF failing = 1
               THEN /\ ReadErr(c, e, [to EXCEPT !.failed = TRUE])
                    /\ handle' = [handle EXCEPT ![c].pos = p2]
               ELSE IF failing = 2
               THEN /\ ReadErr(c, e, [to EXCEPT !.failed = TRUE, !.slot = "opened"])
                    /\ handle' = [handle EXCEPT ![c].pos = p2]
               ELSE IF failing = 3
               THEN /\ ReadErr(c, e, [to EXCEPT !.failed = TRUE, !.slot = "header"])
                    /\ handle' = [handle EXCEPT ![c].pos = p2]
               ELSE IF ~FreadOK(disk, p2, glc_ps)
               THEN \* label read_fail
                    /\ ReadErr(c, EBADMSG, [to EXCEPT !.slot = "header"])
                    /\ handle' = [handle EXCEPT ![c].pos = p3]
               ELSE IF failing = 4
               THEN /\ ReadErr(c, e, [to EXCEPT !.failed = TRUE, !.slot = "payload"])
                    /\ handle' = [handle EXCEPT ![c].pos = p3]
               ELSE /\ to' = [to EXCEPT
                          !.out = Append(@, Frame(type, Bytes(disk, p2, glc_ps)))]
                    /\ handle' = [handle EXCEPT ![c].pos = p3]
                    /\ rd' = [rd EXCEPT !.pc = "test", !.type = type]
                    /\ UNCHANGED <<flags, last>>
    /\ UNCHANGED <<disk, nwritten, lock, proc, info, stream_version, callback, tracker, thr,
                   from, waiting, cancel, lastInfo,
                   consumed>>

\* the loop's condition, tested after the slot was closed
file_read_test(c) ==
    /\ rd.pc = "test" /\ rd.c = c
    /\ IF rd.type # GLC_MESSAGE_CLOSE /\ ~cancel
       THEN /\ rd' = [rd EXCEPT !.pc = "body"]
            /\ UNCHANGED <<flags, last>>
       ELSE ReadFinish(c)
    /\ UNCHANGED <<disk, nwritten, lock, proc, info, handle, stream_version, callback,
                   tracker, thr, from, waiting, cancel, to, lastInfo,
                   consumed>>

\* glc_state_set(glc, GLC_STATE_CANCEL) by another thread of the reader
SetCancel ==
    /\ rd.pc # "idle" /\ ~cancel
    /\ cancel' = TRUE
    /\ UNCHANGED <<disk, nwritten, lock, proc, info, handle, flags, stream_version, callback,
                   tracker, thr, from, waiting, rd, to, last, lastInfo,
                   consumed>>

\* the flag cleared again between two reads
ClearCancel ==
    /\ rd.pc = "idle" /\ cancel
    /\ cancel' = FALSE
    /\ UNCHANGED <<disk, nwritten, lock, proc, info, handle, flags, stream_version, callback,
                   tracker, thr, from, waiting, rd, to, last, lastInfo,
                   consumed>>

(* ------------------------------------------------------------------ *)
(* Write side: attach, close, info, eof, state                           *)
(* ------------------------------------------------------------------ *)

\* what the write side never touches
ReadState == <<stream_version, cancel, rd, lastInfo, consumed>>

\* an attach that takes no lock
NoLock(p) == TRUE

\* fcntl(fd, F_SETLK, F_WRLCK ...) by process p: a record lock conflicts
\* with the lock of another process only, and F_SETLK does not wait
lockfile(p) == lock \in {NoProc, p}

\* the steps of file_set_target that can fail, "none" for none
TargetFailures == {"none", "fstat", "fchmod", "fdopen"}

\* an attach that truncates the file before it asks for the lock
TruncateFirst(op, c, failing, closes_fd) ==
    /\ disk' = <<>>
    /\ nwritten' = [nwritten EXCEPT ![c] = 0]
    /\ IF failing \in {"fstat", "fchmod"}
       THEN /\ last' = Returned(op, c, EIO)
            /\ lock' = IF closes_fd THEN Unlocked(proc[c]) ELSE lock
            /\ UNCHANGED <<handle, flags>>
       ELSE IF ~lockfile(proc[c])
       THEN /\ last' = Returned(op, c, EACCES)
            /\ UNCHANGED <<lock, handle, flags>>
       ELSE IF failing = "fdopen"
       THEN /\ last' = Returned(op, c, EIO)
            /\ lock' = IF closes_fd THEN NoProc ELSE proc[c]
            /\ UNCHANGED <<handle, flags>>
       ELSE /\ handle' = [handle EXCEPT ![c] = [mode |-> "w", pos |-> 0]]
            /\ flags' = [flags EXCEPT ![c] = @ \cup {FILE_WRITING}]
            /\ lock' = proc[c]
            /\ last' = Returned(op, c, OK)

\* file_set_target(file, fd) from fstat on, for a controller that is not
\* attached; closes_fd: the caller closes fd when the attach failed
SetTarget(op, c, failing, closes_fd) ==
    IF failing \in {"fstat", "fchmod"}
    THEN /\ last' = Returned(op, c, EIO)
         /\ lock' = IF closes_fd THEN Unlocked(proc[c]) ELSE lock
         /\ UNCHANGED <<disk, nwritten, handle, flags>>
    ELSE IF ~lockfile(proc[c])
    THEN /\ last' = Returned(op, c, EACCES)
         /\ UNCHANGED <<disk, nwritten, lock, handle, flags>>
    ELSE \* lseek(fd, 0, SEEK_SET); ftruncate(fd, 0)
         /\ disk' = <<>>
         /\ nwritten' = [nwritten EXCEPT ![c] = 0]
         /\ IF failing = "fdopen"
            THEN /\ last' = Returned(op, c, EIO)
                 /\ lock' = IF closes_fd THEN NoProc ELSE proc[c]
                 /\ UNCHANGED <<handle, flags>>
            ELSE /\ handle' = [handle EXCEPT ![c] = [mode |-> "w", pos |-> 0]]
                 /\ flags' = [flags EXCEPT ![c] = @ \cup {FILE_WRITING}]
                 /\ lock' = proc[c]
                 /\ last' = Returned(op, c, OK)

\* file_set_target(file, fd)
file_set_target(c) ==
    /\ Free(c)
    /\ \E failing \in TargetFailures :
        IF handle[c] # NULL
        THEN /\ last' = Returned("file_set_target", c, EBUSY)
             /\ UNCHANGED <<disk, nwritten, lock, handle, flags>>
        ELSE SetTarget("file_set_target", c, failing, FALSE)
    /\ to' = EmptyBuffer
    /\ UNCHANGED <<proc, info, callback, tracker, thr, from, waiting>>
    /\ UNCHANGED ReadState

\* file_open_target(file, filename): open, then file_set_target on the new
\* descriptor, which is closed again when that fails
file_open_target(c) ==
    /\ Free(c)
    /\ \E failing \in TargetFailures \cup {"open"} :
        IF handle[c] # NULL
        THEN /\ last' = Returned("file_open_target", c, EBUSY)
             /\ UNCHANGED <<disk, nwritten, lock, handle, flags>>
        ELSE IF failing = "open"
        THEN /\ last' = Returned("file_open_target", c, EIO)
             /\ UNCHANGED <<disk, nwritten, lock, handle, flags>>
        ELSE SetTarget("file_open_target", c, failing, TRUE)
    /\ to' = EmptyBuffer
    /\ UNCHANGED <<proc, info, callback, tracker, thr, from, waiting>>
    /\ UNCHANGED ReadState

\* a state check that refuses nothing
NoStateCheck(c) == FALSE

\* a state check that never looks at the running flag
RunningIgnored(c) == handle[c] = NULL \/ FILE_WRITING \notin flags[c]

\* the check that opens close-target, write-info, write-eof, write-state
NotWritable(c) ==
    handle[c] = NULL \/ FILE_RUNNING \in flags[c] \/ FILE_WRITING \notin flags[c]

\* file_close_target(file)
file_close_target(c) ==
    /\ Free(c)
    /\ IF NotWritable(c)
       THEN /\ last' = Returned("file_close_target", c, EAGAIN)
            /\ UNCHANGED <<lock, handle, flags>>
       ELSE /\ handle' = [handle EXCEPT ![c] = NULL]
            /\ flags' = [flags EXCEPT
                   ![c] = @ \ {FILE_RUNNING, FILE_WRITING, FILE_INFO_WRITTEN}]
            /\ lock' = Unlocked(proc[c])
            /\ last' = Returned("file_close_target", c, OK)
    /\ to' = EmptyBuffer
    /\ UNCHANGED <<disk, nwritten, proc, info, callback, tracker, thr, from, waiting>>
    /\ UNCHANGED ReadState

\* bytes written through the handle of c, which is open for writing
Pumped(c, b) ==
    /\ disk' = FwriteAt(disk, handle[c].pos, b)
    /\ handle' = [handle EXCEPT ![c].pos = @ + Len(b)]

\* the same by a call of the owner, within the model's bound on such calls
Written(c, b) ==
    /\ nwritten[c] < MaxWrites
    /\ Pumped(c, b)
    /\ nwritten' = [nwritten EXCEPT ![c] = @ + 1]

\* file_set_callback(file, callback)
file_set_callback(c) ==
    /\ Free(c)
    /\ \E cb \in BOOLEAN : callback' = [callback EXCEPT ![c] = cb]
    /\ last' = Returned("file_set_callback", c, OK)
    /\ to' = EmptyBuffer
    /\ UNCHANGED <<disk, nwritten, lock, proc, info, handle, flags, tracker, thr, from, waiting>>
    /\ UNCHANGED ReadState

\* file_write_info(file, info, info_name, info_date): an fwrite of the name
\* or the date of size 0 returns 0, which the code takes for a failure
file_write_info(c) ==
    /\ Free(c)
    /\ \E io_ok \in BOOLEAN :
        IF NotWritable(c)
        THEN /\ last' = Returned("file_write_info", c, EAGAIN)
             /\ UNCHANGED <<disk, nwritten, handle, flags>>
        ELSE IF ~io_ok
        THEN /\ last' = Returned("file_write_info", c, EIO)
             /\ UNCHANGED <<disk, nwritten, handle, flags>>
        ELSE /\ IF info.name_size = 0
                THEN /\ Written(c, EncodeInfo(info))
                     /\ \E e \in StaleErrno :
                         last' = Returned("file_write_info", c, e)
                     /\ UNCHANGED flags
                ELSE IF info.date_size = 0
                THEN /\ Written(c, EncodeInfo(info) \o SubSeq(Name, 1, info.name_size))
                     /\ \E e \in StaleErrno :
                         last' = Returned("file_write_info", c, e)
                     /\ UNCHANGED flags
                ELSE /\ Written(c, InfoBytes(info))
                     /\ flags' = [flags EXCEPT ![c] = @ \cup {FILE_INFO_WRITTEN}]
                     /\ last' = Returned("file_write_info", c, OK)
    /\ to' = EmptyBuffer
    /\ UNCHANGED <<lock, proc, info, callback, tracker, thr, from, waiting>>
    /\ UNCHANGED ReadState

\* a writer that puts the tag before the length
WriteTagFirst(fr) ==
    <<fr.type>> \o LE(Len(fr.data), GLC_SIZE_SIZE) \o fr.data

\* the bytes file_write_message(file, header, message, message_size) writes
file_write_message(fr) ==
    LE(Len(fr.data), GLC_SIZE_SIZE) \o <<fr.type>>
        \o (IF Len(fr.data) > 0 THEN fr.data ELSE <<>>)

\* file_write_eof(file); the write may fail
file_write_eof(c) ==
    /\ Free(c)
    /\ \E io_ok \in BOOLEAN :
        IF NotWritable(c)
        THEN /\ last' = Returned("file_write_eof", c, EAGAIN)
             /\ UNCHANGED <<disk, nwritten, handle>>
        ELSE IF ~io_ok
        THEN /\ last' = Returned("file_write_eof", c, EIO)
             /\ UNCHANGED <<disk, nwritten, handle>>
        ELSE /\ Written(c, file_write_message(Frame(GLC_MESSAGE_CLOSE, <<>>)))
             /\ last' = Returned("file_write_eof", c, OK)
    /\ to' = EmptyBuffer
    /\ UNCHANGED <<lock, proc, info, flags, callback, tracker, thr, from, waiting>>
    /\ UNCHANGED ReadState

\* the tags whose frames the tracker keeps for replay
Replayable == {GLC_MESSAGE_CTX, GLC_MESSAGE_AUDIO_FORMAT, GLC_MESSAGE_COLOR}

\* tracker_submit(tracker, header, message, size): a declaration is kept at
\* the place where its tag was first seen
tracker_submit(t, fr) ==
    IF fr.type \notin Replayable THEN t
    ELSE IF \E i \in DOMAIN t : t[i].type = fr.type
    THEN [i \in DOMAIN t |-> IF t[i].type = fr.type THEN fr ELSE t[i]]
    ELSE Append(t, fr)

\* tracker_iterate_state(tracker, file_write_state_callback, file): the
\* bytes of one file_write_message per declaration, in the tracker's order
RECURSIVE tracker_iterate_state(_)
tracker_iterate_state(t) ==
    IF t = <<>> THEN <<>>
    ELSE file_write_message(Head(t)) \o tracker_iterate_state(Tail(t))

\* file_write_state(file); the first write may fail
file_write_state(c) ==
    /\ Free(c)
    /\ \E io_ok \in BOOLEAN :
        IF NotWritable(c)
        THEN /\ last' = Returned("file_write_state", c, EAGAIN)
             /\ UNCHANGED <<disk, nwritten, handle>>
        ELSE IF ~io_ok /\ tracker[c] # <<>>
        THEN /\ last' = Returned("file_write_state", c, EIO)
             /\ UNCHANGED <<disk, nwritten, handle>>
        ELSE /\ Written(c, tracker_iterate_state(tracker[c]))
             /\ last' = Returned("file_write_state", c, OK)
    /\ to' = EmptyBuffer
    /\ UNCHANGED <<lock, proc, info, flags, callback, tracker, thr, from, waiting>>
    /\ UNCHANGED ReadState

(* ------------------------------------------------------------------ *)
(* Write side: the pump                                                  *)
(* ------------------------------------------------------------------ *)

\* the frames the source buffer hands to a pump worker; a container frame's
\* payload is a frame of its own: size(8) | tag(1) | payload
PumpFrames ==
    {Frame(GLC_MESSAGE_PICTURE, <<7, 7>>),
     Frame(GLC_MESSAGE_CTX, <<3>>),
     Frame(GLC_MESSAGE_AUDIO_FORMAT, <<5>>),
     Frame(GLC_MESSAGE_CLOSE, <<>>),
     Frame(GLC_MESSAGE_CONTAINER,
           EncodeCurrent(Frame(GLC_MESSAGE_AUDIO, <<6>>))),
     Frame(GLC_CALLBACK_REQUEST, <<9>>)}

Alive(c) == thr[c].run + thr[c].cb + thr[c].exited

\* file_write_process_start(file, from); glc_thread_create may fail
file_write_process_start(c) ==
    /\ Free(c)
    /\ \E created \in BOOLEAN :
        IF NotWritable(c) \/ FILE_INFO_WRITTEN \notin flags[c]
        THEN /\ last' = Returned("file_write_process_start", c, EAGAIN)
             /\ UNCHANGED <<flags, thr>>
        ELSE IF ~created
        THEN /\ last' = Returned("file_write_process_start", c, EIO)
             /\ UNCHANGED <<flags, thr>>
        ELSE /\ Alive(c) < MaxThreads
             /\ thr' = [thr EXCEPT ![c].run = @ + 1]
             /\ flags' = [flags EXCEPT ![c] = @ \cup {FILE_RUNNING}]
             /\ last' = Returned("file_write_process_start", c, OK)
    /\ to' = EmptyBuffer
    /\ UNCHANGED <<disk, nwritten, lock, proc, info, handle, callback, tracker, from, waiting>>
    /\ UNCHANGED ReadState

\* file_write_process_wait(file) up to glc_thread_wait, where the caller
\* blocks
file_write_process_wait(c) ==
    /\ Free(c)
    /\ IF handle[c] = NULL \/ FILE_RUNNING \notin flags[c]
          \/ FILE_WRITING \notin flags[c] \/ FILE_INFO_WRITTEN \notin flags[c]
       THEN /\ last' = Returned("file_write_process_wait", c, EAGAIN)
            /\ UNCHANGED waiting
       ELSE /\ ~waiting[c]
            /\ waiting' = [waiting EXCEPT ![c] = TRUE]
            /\ last' = Returned("file_write_process_wait", c, "blocked")
    /\ to' = EmptyBuffer
    /\ UNCHANGED <<disk, nwritten, lock, proc, info, handle, flags, callback, tracker, thr, from>>
    /\ UNCHANGED ReadState

\* a wait that clears the running flag only
JoinedKeepsInfo(c) ==
    /\ waiting[c]
    /\ thr[c].run = 0 /\ thr[c].cb = 0
    /\ thr' = [thr EXCEPT ![c] = NoThreads]
    /\ waiting' = [waiting EXCEPT ![c] = FALSE]
    /\ flags' = [flags EXCEPT ![c] = @ \ {FILE_RUNNING}]
    /\ last' = Returned("file_write_process_wait", c, OK)
    /\ UNCHANGED <<disk, nwritten, lock, proc, info, handle, callback, tracker, from, to>>
    /\ UNCHANGED ReadState

\* glc_thread_wait returns when the workers have exited; the rest of
\* file_write_process_wait
file_write_process_joined(c) ==
    /\ waiting[c]
    /\ thr[c].run = 0 /\ thr[c].cb = 0
    /\ thr' = [thr EXCEPT ![c] = NoThreads]
    /\ waiting' = [waiting EXCEPT ![c] = FALSE]
    /\ flags' = [flags EXCEPT ![c] = @ \ {FILE_RUNNING, FILE_INFO_WRITTEN}]
    /\ last' = Returned("file_write_process_wait", c, OK)
    /\ UNCHANGED <<disk, nwritten, lock, proc, info, handle, callback, tracker, from, to>>
    /\ UNCHANGED ReadState

\* a pump that intercepts no frame
NeverCallbackRequest(fr) == FALSE

\* state->header.type == GLC_CALLBACK_REQUEST
IsCallbackRequest(fr) == fr.type = GLC_CALLBACK_REQUEST

\* the bytes file_read_callback writes for a frame that is no callback
\* request
PumpBytes(fr) ==
    IF fr.type = GLC_MESSAGE_CONTAINER
    THEN SubSeq(fr.data, 1,
             GLC_CONTAINER_MESSAGE_SIZE + FromLE(Bytes(fr.data, 0, GLC_SIZE_SIZE)))
    ELSE LE(Len(fr.data), GLC_SIZE_SIZE) \o <<fr.type>> \o fr.data

\* what file_read_callback returns after those writes, errno where no call
\* set it: the fwrite of a payload of size 0 returns 0
PumpReturns(fr) ==
    IF fr.type # GLC_MESSAGE_CONTAINER /\ Len(fr.data) = 0
    THEN StaleErrno ELSE {OK}

\* a worker whose callback returned ret: it goes on, or stops on an error
Worker(c, ret) ==
    IF ret = OK THEN thr
    ELSE [thr EXCEPT ![c].run = @ - 1, ![c].exited = @ + 1]

\* the process of controller c dies
Killed(c) ==
    /\ proc' = [k \in Ctl |-> IF proc[k] = proc[c] THEN NoProc ELSE proc[k]]
    /\ UNCHANGED info
    /\ thr' = [k \in Ctl |-> IF proc[k] = proc[c] THEN NoThreads ELSE thr[k]]
    /\ lock' = Unlocked(proc[c])

\* file_read_callback(state): a worker of c hands it the next frame of the
\* source buffer
file_read_callback(c) ==
    /\ thr[c].run > 0
    /\ from.n < Len(from.frames)
    /\ \E fr \in {from.frames[from.n + 1]}, io_ok \in BOOLEAN :
        /\ from' = [from EXCEPT !.n = @ + 1]
        /\ tracker' = [tracker EXCEPT ![c] = tracker_submit(@, fr)]
        /\ IF IsCallbackRequest(fr)
           THEN /\ IF callback[c]
                   THEN /\ flags' = [flags EXCEPT ![c] = @ \ {FILE_RUNNING}]
                        /\ thr' = [thr EXCEPT ![c].run = @ - 1, ![c].cb = @ + 1]
                   ELSE UNCHANGED <<flags, thr>>
                /\ UNCHANGED <<disk, nwritten, handle, proc, info, lock, last>>
           ELSE IF handle[c] = NULL
           THEN \* fwrite_unlocked through a NULL handle
                /\ Killed(c)
                /\ last' = Returned("file_read_callback", c, "SIGSEGV")
                /\ UNCHANGED <<disk, nwritten, handle, flags>>
           ELSE IF handle[c].mode # "w" \/ ~io_ok
           THEN /\ thr' = Worker(c, EIO)
                /\ last' = Returned("file_read_callback", c, EIO)
                /\ UNCHANGED <<disk, nwritten, handle, flags, proc, info, lock>>
           ELSE /\ Pumped(c, PumpBytes(fr))
                /\ \E ret \in PumpReturns(fr) :
                    /\ thr' = Worker(c, ret)
                    /\ last' = Returned("file_read_callback", c, ret)
                /\ UNCHANGED <<nwritten, flags, proc, info, lock>>
    /\ UNCHANGED <<callback, waiting, to>>
    /\ UNCHANGED ReadState

\* file->callback(callback_req->arg) returns to file_read_callback
callback_returns(c) ==
    /\ thr[c].cb > 0
    /\ flags' = [flags EXCEPT ![c] = @ \cup {FILE_RUNNING}]
    /\ thr' = [thr EXCEPT ![c].cb = @ - 1, ![c].run = @ + 1]
    /\ UNCHANGED <<disk, nwritten, lock, proc, info, handle, callback, tracker, from, waiting,
                   to, last>>
    /\ UNCHANGED ReadState

\* a worker leaves its loop: the source buffer was closed or cancelled
worker_exits(c) ==
    /\ thr[c].run > 0
    /\ thr' = [thr EXCEPT ![c].run = @ - 1, ![c].exited = @ + 1]
    /\ UNCHANGED <<disk, nwritten, lock, proc, info, handle, flags, callback, tracker, from,
                   waiting, to, last>>
    /\ UNCHANGED ReadState

(* ------------------------------------------------------------------ *)
(* Specifications                                                        *)
(* ------------------------------------------------------------------ *)

ReadSide(c) ==
    \/ file_set_source(c) \/ file_open_source(c) \/ file_close_source(c)
    \/ file_read_info(c) \/ file_read(c)
    \/ file_read_frame(c) \/ file_read_test(c)

WriteSide(c) ==
    \/ file_set_callback(c)
    \/ file_set_target(c) \/ file_open_target(c) \/ file_close_target(c)
    \/ file_write_info(c) \/ file_write_eof(c) \/ file_write_state(c)
    \/ file_write_process_start(c) \/ file_write_process_wait(c)
    \/ file_write_process_joined(c)
    \/ file_read_callback(c) \/ callback_returns(c) \/ worker_exits(c)

\* the frames taken from the source buffer so far
Fed == SubSeq(from.frames, 1, from.n)

\* one controller reading what lies on disk
InitRead == \E d \in InitialFiles : Constructed(d, <<>>, CurrentInfo, [c \in Ctl |-> c])

NextRead == (\E c \in {1} : ReadSide(c)) \/ SetCancel \/ ClearCancel

SpecRead == InitRead /\ [][NextRead]_vars

\* one controller writing what a producer feeds its pump
InitWrite ==
    \E frs \in SeqsUpTo(PumpFrames, MaxPump), inf \in {CurrentInfo, NamelessInfo} :
        Constructed(<<>>, frs, inf, [c \in Ctl |-> c])

NextWrite == \E c \in {1} : WriteSide(c)

SpecWrite == InitWrite /\ [][NextWrite]_vars

\* the same with a feed of pictures and callback requests only: the pump
\* sessions of one controller, the hook free to call any operation
SessionFrames ==
    {Frame(GLC_MESSAGE_PICTURE, <<7, 7>>), Frame(GLC_CALLBACK_REQUEST, <<9>>)}

InitSession ==
    \E frs \in SeqsUpTo(SessionFrames, MaxPump) :
        Constructed(<<>>, frs, CurrentInfo, [c \in Ctl |-> c])

SpecSession == InitSession /\ [][NextWrite]_vars

\* one controller recording what a producer feeds its pump and playing the
\* recording back: each call is made once the call before it succeeded, the
\* producer closes the source buffer after its last frame, and a callback
\* that is dispatched does nothing but return
InitRoundTrip ==
    \E frs \in SeqsUpTo(PumpFrames, MaxPump), inf \in {CurrentInfo, LegacyInfo} :
        Constructed(<<>>, frs, inf, [c \in Ctl |-> c])

After(ops, c) == last.op \in ops /\ last.c = c /\ last.ret = OK

RoundTrip(c) ==
    \/ last.op = "file_init" /\ file_set_target(c)
    \/ After({"file_set_target"}, c) /\ file_set_callback(c)
    \/ After({"file_set_target", "file_set_callback"}, c) /\ file_write_info(c)
    \/ After({"file_write_info"}, c) /\ file_write_process_start(c)
    \/ file_read_callback(c)
    \/ callback_returns(c)
    \/ from.n = Len(from.frames) /\ worker_exits(c)
    \/ /\ After({"file_write_process_start", "file_read_callback"}, c)
       /\ from.n = Len(from.frames)
       /\ file_write_process_wait(c)
    \/ file_write_process_joined(c)
    \/ After({"file_write_process_wait"}, c) /\ file_write_eof(c)
    \/ After({"file_write_eof"}, c) /\ file_close_target(c)
    \/ After({"file_close_target"}, c) /\ file_set_source(c)
    \/ After({"file_set_source"}, c) /\ file_read_info(c)
    \/ After({"file_read_info"}, c) /\ file_read(c)
    \/ file_read_frame(c)
    \/ file_read_test(c)

NextRoundTrip == \E c \in {1} : RoundTrip(c)

SpecRoundTrip == InitRoundTrip /\ [][NextRoundTrip]_vars

\* recording back frames with and without a container around them: a
\* container of a payload, one of an empty payload, one whose buffer slot is
\* a byte longer than the container says
FramingFrames ==
    {Frame(GLC_MESSAGE_PICTURE, <<7, 7>>),
     Frame(GLC_MESSAGE_CONTAINER, EncodeCurrent(Frame(GLC_MESSAGE_AUDIO, <<6>>))),
     Frame(GLC_MESSAGE_CONTAINER, EncodeCurrent(Frame(GLC_MESSAGE_AUDIO, <<6>>)) \o <<0>>),
     Frame(GLC_MESSAGE_CONTAINER, EncodeCurrent(Frame(GLC_MESSAGE_AUDIO, <<>>))),
     Frame(GLC_CALLBACK_REQUEST, <<9>>)}

InitFraming ==
    \E frs \in SeqsUpTo(FramingFrames, MaxPump) :
        Constructed(<<>>, frs, CurrentInfo, [c \in Ctl |-> c])

SpecFraming == InitFraming /\ [][NextRoundTrip]_vars

\* playing back recordings of one frame and of three: after a read that ended
\* behind the first of three frames, as many bytes are left as an info header
\* has
RereadFiles ==
    {Recording(i, frs) :
        i \in {CurrentInfo, LegacyInfo},
        frs \in {<<Frame(GLC_MESSAGE_PICTURE, Pixels)>>,
                 <<Frame(GLC_MESSAGE_PICTURE, Pixels), Frame(GLC_MESSAGE_PICTURE, Pixels),
                   Frame(GLC_MESSAGE_PICTURE, Pixels)>>}}

InitReread == \E d \in RereadFiles : Constructed(d, <<>>, CurrentInfo, [c \in Ctl |-> c])

SpecReread == InitReread /\ [][NextRead]_vars

\* two recorders and a player, spread over two processes in every way,
\* attaching to one file and closing it
Procs == {1, 2}
InitLock ==
    \E procs \in [Ctl -> Procs], d \in {<<>>, Recording(CurrentInfo, <<>>)} :
        procs[1] = 1 /\ Constructed(d, <<>>, CurrentInfo, procs)

Attaching(c) ==
    \/ file_set_target(c) \/ file_open_target(c) \/ file_close_target(c)
    \/ file_write_info(c)

\* what a player in one of the processes does to the same file
Playing(c) == file_set_source(c) \/ file_open_source(c) \/ file_close_source(c)

NextLock == (\E c \in {1, 2} : Attaching(c)) \/ (\E c \in {3} : Playing(c))

SpecLock == InitLock /\ [][NextLock]_vars

\* one controller attached to a file and closed again in either mode, its
\* stream info written or read in between
InitAttach ==
    \E d \in {<<>>, Recording(CurrentInfo, <<>>),
               Recording(CurrentInfo, <<Frame(GLC_MESSAGE_PICTURE, Pixels)>>)} :
        Constructed(d, <<>>, CurrentInfo, [c \in Ctl |-> c])

Lifecycle(c) ==
    \/ file_set_target(c) \/ file_open_target(c) \/ file_close_target(c)
    \/ file_set_source(c) \/ file_open_source(c) \/ file_close_source(c)
    \/ file_write_info(c) \/ file_read_info(c)

NextAttach == \E c \in {1} : Lifecycle(c)

SpecAttach == InitAttach /\ [][NextAttach]_vars

(* ------------------------------------------------------------------ *)
(* The stream format, as the bytes of a file state it                    *)
(* ------------------------------------------------------------------ *)

Header(d) == DecodeInfo(Bytes(d, 0, GLC_STREAM_INFO_SIZE))

\* where the frames of d start: after the info header, the name, the date
FramesStart(d) ==
    GLC_STREAM_INFO_SIZE + Header(d).name_size + Header(d).date_size

\* d starts with a whole info header of a supported version
ValidHeader(d) ==
    /\ Len(d) >= GLC_STREAM_INFO_SIZE
    /\ Supported(Header(d))
    /\ Len(d) >= FramesStart(d)

FrameHeaderSize == GLC_SIZE_SIZE + GLC_MESSAGE_HEADER_SIZE

\* the length field and the tag of the frame that starts at pos, in the
\* field order of version
LengthAt(d, pos, version) ==
    FromLE(Bytes(d, IF version = LEGACY_VERSION
                    THEN pos + GLC_MESSAGE_HEADER_SIZE ELSE pos, GLC_SIZE_SIZE))
TagAt(d, pos, version) ==
    IF version = LEGACY_VERSION THEN d[pos + 1] ELSE d[pos + GLC_SIZE_SIZE + 1]

\* a whole frame starts at pos: length, tag and all of the payload
CompleteAt(d, pos, version) ==
    /\ pos + FrameHeaderSize <= Len(d)
    /\ pos + FrameHeaderSize + LengthAt(d, pos, version) <= Len(d)

FrameAt(d, pos, version) ==
    Frame(TagAt(d, pos, version),
          Bytes(d, pos + FrameHeaderSize, LengthAt(d, pos, version)))

\* the whole frames of d from pos on, and where the last of them ends
RECURSIVE CompleteFrames(_, _, _)
CompleteFrames(d, pos, version) ==
    IF ~CompleteAt(d, pos, version) THEN <<>>
    ELSE <<FrameAt(d, pos, version)>>
         \o CompleteFrames(d, pos + FrameHeaderSize + LengthAt(d, pos, version),
                           version)
RECURSIVE EndOfFrames(_, _, _)
EndOfFrames(d, pos, version) ==
    IF ~CompleteAt(d, pos, version) THEN pos
    ELSE EndOfFrames(d, pos + FrameHeaderSize + LengthAt(d, pos, version),
                     version)

HasTag(frs, tag) == \E k \in DOMAIN frs : frs[k].type = tag

\* the EOF marker
CloseFrame == Frame(GLC_MESSAGE_CLOSE, <<>>)

\* the EOF marker is what the handle of c reads next
AtEofMarker(c) ==
    /\ CompleteAt(disk, handle[c].pos, stream_version[c])
    /\ FrameAt(disk, handle[c].pos, stream_version[c]) = CloseFrame

Attached(c, mode) == handle[c] # NULL /\ mode \in flags[c]

\* the handle of c has a whole info header before it, and that header
HeaderAhead(c) == handle[c].pos + GLC_STREAM_INFO_SIZE <= Len(disk)
HeaderRead(c) == DecodeInfo(Bytes(disk, handle[c].pos, GLC_STREAM_INFO_SIZE))

\* the call that returns in the step, or is left blocked or running by
\* it, is one of op on c
Called(op, c) == last'.op = op /\ last'.c = c

\* the step returns from the file_read call of c
ReadEnds(c) == rd.pc # "idle" /\ rd.c = c /\ rd'.pc = "idle"

(* ------------------------------------------------------------------ *)
(* Reading                                                               *)
(* ------------------------------------------------------------------ *)

\* C2: a read that started at the first frame of a file with a valid info
\* header, whose data ends inside a frame (in its length, its tag or its
\* payload) and holds no close frame before, forwards every whole frame, then
\* one close frame, does not cancel the buffer and returns 0.  No buffer
\* operation failed and the read was not cancelled.
C2_TruncatedFile ==
    [][\A c \in Ctl :
        LET version == Header(disk).version
            frs == CompleteFrames(disk, FramesStart(disk), version)
        IN  (/\ ReadEnds(c)
             /\ ValidHeader(disk)
             /\ rd.start = FramesStart(disk)
             /\ EndOfFrames(disk, FramesStart(disk), version) < Len(disk)
             /\ ~HasTag(frs, GLC_MESSAGE_CLOSE)
             /\ ~cancel
             /\ ~to'.failed)
            => /\ to'.out = frs \o <<CloseFrame>>
               /\ ~to'.cancelled
               /\ last' = Returned("file_read", c, OK)]_vars

C5_NoReadAfterFailedInfo ==
    [][\A c \in Ctl :
        (/\ file_read(c)
         /\ Attached(c, FILE_READING)
         /\ lastInfo[c] \notin {"none", OK})
            => /\ last'.ret \notin {OK, "running"}
               /\ rd'.pc = "idle"
               /\ to' = EmptyBuffer]_vars

\* C6: read-info on a whole header with the signature and a version that is
\* neither the current one nor 0x03 returns ENOTSUP, does not set info-valid
\* and leaves the cached version as it was; and the only step that sets
\* info-valid is a read-info on a header with the signature and a supported
\* version.
C6_VersionGate ==
    [][\A c \in Ctl :
        /\ (/\ file_read_info(c)
            /\ Attached(c, FILE_READING)
            /\ HeaderAhead(c)
            /\ HeaderRead(c).signature = GLC_SIGNATURE
            /\ HeaderRead(c).version \notin {GLC_STREAM_VERSION, LEGACY_VERSION})
           => /\ last' = Returned("file_read_info", c, ENOTSUP)
              /\ FILE_INFO_VALID \notin flags'[c] \ flags[c]
              /\ stream_version'[c] = stream_version[c]
        /\ (FILE_INFO_VALID \in flags'[c] \ flags[c])
           => /\ file_read_info(c)
              /\ HeaderAhead(c)
              /\ Supported(HeaderRead(c))]_vars

\* read-info met a header of version current + 2 and returned ENOTSUP
C6_Witness ==
    /\ last = Returned("file_read_info", 1, ENOTSUP)
    /\ ValidHeader(disk) = FALSE
    /\ Len(disk) >= GLC_STREAM_INFO_SIZE
    /\ Header(disk).signature = GLC_SIGNATURE
    /\ Header(disk).version = GLC_STREAM_VERSION + 2
    /\ FILE_INFO_VALID \notin flags[1]
    /\ stream_version[1] = 0

\* C10: with the cancellation flag set, the pass of read over a whole frame
\* forwards that frame and does not cancel the buffer (no buffer operation
\* failing); the test that follows forwards nothing more, no close frame
\* either, and ends the call with 0.
C10_Cancellation ==
    [][\A c \in Ctl :
        /\ (/\ file_read_frame(c)
            /\ cancel
            /\ CompleteAt(disk, handle[c].pos, stream_version[c])
            /\ ~to'.failed)
           => /\ to'.out = Append(to.out,
                      FrameAt(disk, handle[c].pos, stream_version[c]))
              /\ ~to'.cancelled
              /\ rd'.pc = "test"
        /\ (file_read_test(c) /\ cancel)
           => /\ to' = to
              /\ rd'.pc = "idle"
              /\ last' = Returned("file_read", c, OK)]_vars

\* the pass of read that starts at the handle of c gets its length and tag
HeaderComplete(c) == handle[c].pos + FrameHeaderSize <= Len(disk)

\* C16 as stated: a pass of read in which a buffer operation fails forwards
\* a close frame, cancels the buffer and returns the error.
C16_BufferErrorForwardsClose ==
    [][\A c \in Ctl :
        (file_read_frame(c) /\ HeaderComplete(c) /\ to'.failed)
            => /\ to'.out = Append(to.out, CloseFrame)
               /\ to'.cancelled
               /\ last'.op = "file_read" /\ last'.ret \in BufferErrors]_vars

\* C16, amended: a pass of read in which a buffer operation fails forwards
\* nothing, no close frame either, and ends the call with both info flags
\* cleared; on EINTR the call returns 0 and does not cancel the buffer, on
\* any other error it cancels the buffer and returns that error.
C16_BufferErrorCancels ==
    [][\A c \in Ctl :
        (file_read_frame(c) /\ HeaderComplete(c) /\ to'.failed)
            => /\ to'.out = to.out
               /\ rd'.pc = "idle"
               /\ flags'[c] \cap {FILE_INFO_READ, FILE_INFO_VALID} = {}
               /\ last'.op = "file_read"
               /\ last'.ret \in {OK} \cup (BufferErrors \ {EINTR})
               /\ to'.cancelled <=> last'.ret # OK]_vars

\* after one frame was forwarded a buffer operation failed with an error
\* other than EINTR: the buffer is cancelled and read returned the error
C16_Witness ==
    /\ last = Returned("file_read", 1, EIO)
    /\ to.failed /\ to.cancelled
    /\ Len(to.out) = 1
    /\ flags[1] = {FILE_READING}

\* C24 as stated: a read that passed its checks returns with info-read and
\* info-valid cleared; a read called after such a read, no read-info having
\* returned 0 since, returns EAGAIN, does not enter its loop and forwards
\* nothing; and a read refused by the check of the handle or of info-read
\* leaves every flag as it is.
C24_SecondReadStateError ==
    [][\A c \in {1} :
        /\ ReadEnds(c)
           => /\ FILE_INFO_READ \notin flags'[c]
              /\ FILE_INFO_VALID \notin flags'[c]
        /\ (Called("file_read", c) /\ consumed[c] /\ file_read(c))
           => /\ last'.ret = EAGAIN
              /\ rd'.pc = "idle"
              /\ to'.out = <<>>
        /\ (Called("file_read", c) /\ file_read(c)
                /\ (~Attached(c, FILE_READING) \/ FILE_INFO_READ \notin flags[c]))
           => /\ last'.ret = EAGAIN
              /\ flags' = flags]_vars

\* C24, amended: as stated, but the read called after a read that passed
\* its checks returns EAGAIN or, where a read-info that failed after it had
\* read a whole header came in between, EINVAL.
C24_ReadOneShot ==
    [][\A c \in {1} :
        /\ ReadEnds(c)
           => /\ FILE_INFO_READ \notin flags'[c]
              /\ FILE_INFO_VALID \notin flags'[c]
        /\ (Called("file_read", c) /\ consumed[c] /\ file_read(c))
           => /\ rd'.pc = "idle"
              /\ to'.out = <<>>
              /\ IF Attached(c, FILE_READING) /\ FILE_INFO_READ \in flags[c]
                 THEN last'.ret = EINVAL /\ lastInfo[c] \notin {"none", OK, EAGAIN}
                 ELSE last'.ret = EAGAIN
        /\ (Called("file_read", c) /\ file_read(c)
                /\ (~Attached(c, FILE_READING) \/ FILE_INFO_READ \notin flags[c]))
           => /\ last'.ret = EAGAIN
              /\ flags' = flags]_vars

\* a read was cancelled after the first of three frames, the read-info that
\* followed took the two frames left for a header and failed, and the read
\* after that was refused
C24_Witness ==
    /\ last = Returned("file_read", 1, EINVAL)
    /\ consumed[1]
    /\ lastInfo[1] = EINVAL
    /\ rd.pc = "idle" /\ to.out = <<>>
    /\ flags[1] = {FILE_READING}
    /\ handle[1].pos = Len(disk)

(* ------------------------------------------------------------------ *)
(* Recording and playing back                                            *)
(* ------------------------------------------------------------------ *)

\* C1: when the read of a round trip returns (the frames fed held no
\* callback request, no buffer operation failed), it returns 0, the buffer
\* is not cancelled, and what it forwarded is the frames that were fed, in
\* their order, then a close frame.
C1_RoundTrip ==
    \A c \in Ctl :
        (/\ last.op = "file_read" /\ last.c = c /\ last.ret # "running"
         /\ ~HasTag(from.frames, GLC_CALLBACK_REQUEST)
         /\ ~to.failed)
            => /\ last.ret = OK
               /\ ~to.cancelled
               /\ to.out = from.frames \o <<CloseFrame>>

\* C3: a successful write-eof appends the nine bytes of one frame of length
\* 0 with the close tag and nothing else; the pass of read that meets such a
\* frame forwards a close frame as a closed slot and does not cancel the
\* buffer (no buffer operation failing); the test that follows ends the
\* call with 0.
C3_EofMarker ==
    [][\A c \in Ctl :
        /\ (file_write_eof(c) /\ last'.ret = OK)
           => disk' = disk \o EncodeCurrent(CloseFrame)
        /\ (file_read_frame(c) /\ AtEofMarker(c) /\ ~to'.failed)
           => /\ to'.out = Append(to.out, CloseFrame)
              /\ ~to'.cancelled
              /\ rd'.pc = "test"
        /\ (file_read_test(c) /\ rd.type = GLC_MESSAGE_CLOSE)
           => /\ to' = to
              /\ rd'.pc = "idle"
              /\ last' = Returned("file_read", c, OK)]_vars

\* the frames that are no callback requests
RECURSIVE WithoutRequests(_)
WithoutRequests(frs) ==
    IF frs = <<>> THEN <<>>
    ELSE (IF Head(frs).type = GLC_CALLBACK_REQUEST THEN <<>> ELSE <<Head(frs)>>)
         \o WithoutRequests(Tail(frs))

\* what the pump writes for frames none of which is a callback request
RECURSIVE Framed(_)
Framed(frs) ==
    IF frs = <<>> THEN <<>> ELSE PumpBytes(Head(frs)) \o Framed(Tail(frs))

\* C9: the pump's step on a callback request leaves the file as it is, with
\* a hook installed or without; and while a pump session runs without a
\* failure, the file holds the stream info and then what the pump writes for
\* the frames it took with the callback requests removed.
C9_RequestsNeverPersisted ==
    [][\A c \in Ctl :
        /\ (/\ file_read_callback(c)
            /\ from.frames[from.n + 1].type = GLC_CALLBACK_REQUEST)
           => disk' = disk
        /\ (/\ last'.op \in {"file_write_process_start", "file_read_callback"}
            /\ last'.c = c /\ last'.ret = OK)
           => disk' = InfoBytes(info)
                        \o Framed(WithoutRequests(SubSeq(from'.frames, 1, from'.n)))]_vars

\* with a hook installed the pump took a callback request, its callback
\* returned, and then it wrote a picture
C9_Witness ==
    /\ callback[1] /\ thr[1].cb = 0
    /\ from.n = 2
    /\ from.frames[1].type = GLC_CALLBACK_REQUEST
    /\ from.frames[2].type = GLC_MESSAGE_PICTURE
    /\ last = Returned("file_read_callback", 1, OK)
    /\ disk = InfoBytes(info) \o PumpBytes(from.frames[2])

(* ------------------------------------------------------------------ *)
(* The pump's callback                                                   *)
(* ------------------------------------------------------------------ *)

\* C8: the pump's step on a callback request, a hook being installed, calls
\* the hook once; in no state is FILE_RUNNING set while a callback is under
\* way; the step in which a callback returns sets FILE_RUNNING and takes no
\* frame.
C8_CallbackReentrancy ==
    [][\A c \in Ctl :
        /\ (/\ file_read_callback(c)
            /\ IsCallbackRequest(from.frames[from.n + 1])
            /\ callback[c])
           => thr'[c].cb = thr[c].cb + 1
        /\ thr'[c].cb > 0 => FILE_RUNNING \notin flags'[c]
        /\ callback_returns(c)
           => /\ FILE_RUNNING \in flags'[c]
              /\ thr'[c].cb = thr[c].cb - 1
              /\ from' = from]_vars

(* ------------------------------------------------------------------ *)
(* The write lock                                                        *)
(* ------------------------------------------------------------------ *)

Writer(h, c) == h[c] # NULL /\ h[c].mode = "w"

AttachesTarget(c) == file_set_target(c) \/ file_open_target(c)

FailsAt(c, failing) ==
    /\ handle[c] = NULL
    /\ \/ Called("file_set_target", c) /\ file_set_target(c)
          /\ SetTarget("file_set_target", c, failing, FALSE)
       \/ Called("file_open_target", c) /\ file_open_target(c)
          /\ SetTarget("file_open_target", c, failing, TRUE)

\* C21: an attach as a writer that fails at fstat, at fchmod or at the lock
\* leaves the file's bytes, the handles and the flags as they were; and an
\* attach of an unattached controller in which no step fails and the lock is
\* to be had attaches it, whatever failed before.
C21_TruncateAfterLock ==
    [][\A c \in Ctl :
        /\ (\/ FailsAt(c, "fstat") \/ FailsAt(c, "fchmod")
            \/ (AttachesTarget(c) /\ handle[c] = NULL /\ ~lockfile(proc[c])))
           => /\ last'.ret \notin {OK, EBUSY}
              /\ disk' = disk
              /\ handle' = handle
              /\ flags' = flags
        /\ (FailsAt(c, "none") /\ lockfile(proc[c]))
           => /\ last'.ret = OK
              /\ Writer(handle', c)
              /\ disk' = <<>>]_vars

\* a recording is on disk and held by the writer of process 1; the attach of
\* the controller of process 2 failed at the lock and the recording is there
C21_Witness ==
    /\ proc[1] # proc[2]
    /\ Writer(handle, 1) /\ lock = proc[1]
    /\ last = Returned("file_open_target", 2, EACCES)
    /\ handle[2] = NULL /\ flags[2] = {}
    /\ Len(disk) > Len(InfoBytes(info))

(* ------------------------------------------------------------------ *)
(* The lifecycle of an attachment                                        *)
(* ------------------------------------------------------------------ *)

\* C11: close-target and close-source on a controller without a handle,
\* never attached or closed before, return EAGAIN and leave the handle
\* and every flag as they are, however often they are called.
C11_IdempotentClose ==
    [][\A c \in Ctl :
        ((file_close_target(c) \/ file_close_source(c)) /\ handle[c] = NULL)
            => /\ last'.ret = EAGAIN
               /\ handle' = handle
               /\ flags' = flags]_vars

\* a controller that was attached as a writer and closed was closed once
\* more, which was refused
C11_Witness ==
    /\ last = Returned("file_close_target", 1, EAGAIN)
    /\ handle[1] = NULL
    /\ lock = NoProc /\ Len(disk) >= GLC_STREAM_INFO_SIZE /\ nwritten[1] > 0

\* the four operations that attach a controller to a file
Attaches(c) ==
    \/ file_open_target(c) \/ file_set_target(c)
    \/ file_open_source(c) \/ file_set_source(c)

\* C12: each of the four attach operations, called on a controller that has
\* a handle, returns EBUSY and leaves the handle with its position, every
\* flag, the cached version, the file's bytes and the lock as they are.
C12_Busy ==
    [][\A c \in Ctl :
        (Attaches(c) /\ handle[c] # NULL)
            => /\ last'.ret = EBUSY
               /\ handle' = handle
               /\ flags' = flags
               /\ stream_version' = stream_version
               /\ disk' = disk
               /\ lock' = lock]_vars

\* an attach as a writer was refused on a reader that had read its stream
\* info, and the recording is still there
C12_Witness ==
    /\ last.op \in {"file_set_target", "file_open_target"} /\ last.ret = EBUSY
    /\ {FILE_READING, FILE_INFO_READ, FILE_INFO_VALID} \subseteq flags[1]
    /\ ValidHeader(disk)
    /\ handle[1].mode = "r" /\ handle[1].pos = FramesStart(disk)

\* C13: write-info called while info-written is set returns an error (the
\* state error, were the call refused) and appends nothing; and a write-info that returns 0 was called on a
\* controller attached for writing, not running, whose info-written was
\* not set.
C13_WriteInfoOnce ==
    [][\A c \in Ctl :
        /\ (file_write_info(c) /\ FILE_INFO_WRITTEN \in flags[c])
           => /\ last'.ret # OK
              /\ disk' = disk
        /\ (file_write_info(c) /\ last'.ret = OK)
           => /\ Attached(c, FILE_WRITING)
              /\ FILE_RUNNING \notin flags[c]
              /\ FILE_INFO_WRITTEN \notin flags[c]]_vars

(* ------------------------------------------------------------------ *)
(* Pump sessions                                                         *)
(* ------------------------------------------------------------------ *)

\* C14: info-written is set by a successful write-info and by nothing else,
\* and it is not set when an attach or a wait-write-pump has succeeded; a
\* start-write-pump succeeds only with info-written set, and without it
\* returns EAGAIN and spawns no worker.  So a successful start follows a
\* successful write-info that is later than the last attach and the last
\* successful wait.
C14_StartNeedsFreshInfo ==
    [][\A c \in Ctl :
        /\ (FILE_INFO_WRITTEN \in flags'[c] \ flags[c])
           => file_write_info(c) /\ last'.ret = OK
        /\ (Called("file_set_target", c) /\ last'.ret = OK /\ file_set_target(c))
           => FILE_INFO_WRITTEN \notin flags'[c]
        /\ (Called("file_open_target", c) /\ last'.ret = OK /\ file_open_target(c))
           => FILE_INFO_WRITTEN \notin flags'[c]
        /\ (Called("file_write_process_wait", c) /\ file_write_process_joined(c))
           => /\ last'.ret = OK
              /\ flags'[c] \cap {FILE_RUNNING, FILE_INFO_WRITTEN} = {}
        /\ (Called("file_write_process_start", c) /\ file_write_process_start(c))
           => IF FILE_INFO_WRITTEN \in flags[c]
              THEN TRUE
              ELSE /\ last'.ret = EAGAIN
                   /\ thr' = thr
                   /\ flags' = flags]_vars

\* a pump session wrote a frame and was waited for, and the start that
\* followed without a new write-info was refused
C14_Witness ==
    /\ last = Returned("file_write_process_start", 1, EAGAIN)
    /\ flags[1] = {FILE_WRITING}
    /\ thr[1] = NoThreads
    /\ from.n > 0
    /\ Len(disk) > Len(InfoBytes(info))

\* C17: a start-write-pump called while a worker of the controller is not
\* yet joined spawns none and returns an error; so a controller never has
\* more than one worker that was started and not joined.
C17_OneWorker ==
    [][\A c \in Ctl :
        /\ (Called("file_write_process_start", c) /\ Alive(c) > 0
                /\ file_write_process_start(c))
           => /\ thr' = thr
              /\ last'.ret # OK
        /\ thr'[c].run + thr'[c].cb + thr'[c].exited <= 1]_vars

\* the control operations that the running flag refuses
RefusedWhileRunning ==
    {"file_close_target", "file_write_info", "file_write_eof", "file_write_state",
     "file_write_process_start"}

C19_FileStartsWithInfo ==
    \A c \in {1} :
        (Writer(handle, c) /\ disk # <<>>) =>
            /\ Len(disk) >= Len(InfoBytes(info))
            /\ SubSeq(disk, 1, Len(InfoBytes(info))) = InfoBytes(info)

\* C22: in every state a controller whose running flag is set has a
\* handle, the writing flag and the info-written flag; a pump step never
\* finds the handle closed, and a wait called while the running flag is set
\* is never refused.
C22_RunningImpliesAttached ==
    [][\A c \in {1} :
        /\ FILE_RUNNING \in flags'[c]
           => /\ handle'[c] # NULL
              /\ FILE_WRITING \in flags'[c]
              /\ FILE_INFO_WRITTEN \in flags'[c]
        /\ (Called("file_read_callback", c) /\ file_read_callback(c))
           => last'.ret # "SIGSEGV"
        /\ (Called("file_write_process_wait", c) /\ FILE_RUNNING \in flags[c]
                /\ file_write_process_wait(c))
           => last'.ret # EAGAIN]_vars

\* C23: a wait called while a worker that was started is not yet joined,
\* running or dispatching a callback or exited, is not refused with EAGAIN;
\* and the wait returns 0 only in a state where no worker runs or
\* dispatches.
C23_WaitAfterStart ==
    [][\A c \in {1} :
        /\ (Called("file_write_process_wait", c) /\ Alive(c) > 0
                /\ file_write_process_wait(c))
           => last'.ret # EAGAIN
        /\ (Called("file_write_process_wait", c) /\ last'.ret = OK /\ last' # last)
           => thr[c].run = 0 /\ thr[c].cb = 0]_vars

(* ------------------------------------------------------------------ *)
(* The pump's framing                                                    *)
(* ------------------------------------------------------------------ *)

\* the frame inside a container frame: container->size, container->header
\* and the payload that follows them
Inner(fr) ==
    Frame(fr.data[GLC_SIZE_SIZE + 1],
          Bytes(fr.data, GLC_CONTAINER_MESSAGE_SIZE, FromLE(Bytes(fr.data, 0, GLC_SIZE_SIZE))))

\* what a frame of the file holds of a frame given to the pump
Stored(fr) == IF fr.type = GLC_MESSAGE_CONTAINER THEN Inner(fr) ELSE fr

\* the pump's step on a frame that is no callback request, with no write
\* failing
PumpWrites(c) ==
    /\ Called("file_read_callback", c)
    /\ from'.n = from.n + 1
    /\ handle'[c].pos > handle[c].pos

\* the pump's step appends, for a container frame, the inner length, the
\* inner tag and the inner payload of that length and nothing around them,
\* and for another frame its payload's size, its tag and its payload
PumpFraming(c) ==
    PumpWrites(c) =>
        LET fr == from.frames[from.n + 1]
            inner == Inner(fr)
        IN  disk' = disk \o
                IF fr.type = GLC_MESSAGE_CONTAINER
                THEN LE(Len(inner.data), GLC_SIZE_SIZE) \o <<inner.type>> \o inner.data
                ELSE LE(Len(fr.data), GLC_SIZE_SIZE) \o <<fr.type>> \o fr.data

\* C20: the pump appends a container frame as its inner frame and any other
\* frame that is no callback request as length, tag, payload; and a read of
\* the recording that ends with no buffer operation failing has forwarded
\* every recorded frame, a container frame as its inner frame.
C20_PumpFraming ==
    [][\A c \in {1} :
        /\ PumpFraming(c)
        /\ (ReadEnds(c) /\ ~to'.failed) =>
               LET fed == WithoutRequests(from.frames)
               IN  \A k \in DOMAIN fed :
                       Len(to'.out) >= k /\ to'.out[k] = Stored(fed[k])]_vars

(* ------------------------------------------------------------------ *)
(* State replay                                                          *)
(* ------------------------------------------------------------------ *)

\* the declarations among frs, each tag once, in the order the tags were
\* first seen
RECURSIVE Declarations(_)
Declarations(frs) ==
    IF frs = <<>> THEN <<>>
    ELSE LET before == Declarations(SubSeq(frs, 1, Len(frs) - 1))
             fr == frs[Len(frs)]
         IN  IF fr.type \in Replayable /\ ~HasTag(before, fr.type)
             THEN Append(before, fr) ELSE before

====
